---- MODULE Spec2Model ----
(***************************************************************************)
(* The vault selection/creation/deletion flow of noted:                    *)
(*   internal/tui/directory_picker.go  the Directory Picker                *)
(*   internal/tui/vault.go             the Vault Flow (vaultModel)         *)
(*   cmd/vault.go, cmd/root.go         the callers and the registry        *)
(*                                                                         *)
(* One behaviour is one run of a command that enters the flow (the         *)
(* configuration is read, LaunchVaultTUI runs the flow key by key, and the *)
(* caller persists the outcome), or a sequence of the commands that        *)
(* create a vault by path or open one by name or index.                    *)
(*                                                                         *)
(* Strings are sequences of one-character strings, so that prefixes,       *)
(* path cleaning and ~ expansion are computed as Go computes them.         *)
(* The text inputs are taken to accept the keys routed to them             *)
(* (bubbles/textinput with the focus set).                                 *)
(***************************************************************************)
EXTENDS Integers, Sequences, FiniteSets, TLC

----------------------------------------------------------------------------
(* Bounds *)

\* longest text a text input holds by typing (stands in for CharLimit)
MaxInputLen == 3

\* largest number of vaults in the registry when the command starts
MaxInitVaults == 3

\* the same, for the runs in which characters are typed into the text inputs
MaxTypingVaults == 1

----------------------------------------------------------------------------
(* Strings and paths (Go: strings, path/filepath on a Unix system) *)

EmptyStr == << >>
Slash == "/"
Dot == <<".">>
DotDot == <<".", ".">>

Last(s) == s[Len(s)]
Front(s) == SubSeq(s, 1, Len(s) - 1)

\* strings.HasPrefix(s, prefix)
HasPrefix(s, prefix) ==
    /\ Len(prefix) <= Len(s)
    /\ SubSeq(s, 1, Len(prefix)) = prefix

\* the components of a path between its separators, empty ones included
RECURSIVE SplitFrom(_, _, _, _)
SplitFrom(s, i, cur, acc) ==
    IF i > Len(s) THEN Append(acc, cur)
    ELSE IF s[i] = Slash THEN SplitFrom(s, i + 1, EmptyStr, Append(acc, cur))
    ELSE SplitFrom(s, i + 1, Append(cur, s[i]), acc)

Split(s) == SplitFrom(s, 1, EmptyStr, << >>)

\* the components joined by single separators
RECURSIVE JoinComps(_)
JoinComps(comps) ==
    IF Len(comps) = 0 THEN EmptyStr
    ELSE IF Len(comps) = 1 THEN comps[1]
    ELSE comps[1] \o <<Slash>> \o JoinComps(Tail(comps))

\* filepath.Clean's pass over the components: drops empty and "." ones,
\* lets ".." remove the component before it (at the root it is dropped,
\* in a relative path with nothing before it, it is kept)
RECURSIVE CleanComps(_, _, _, _)
CleanComps(comps, i, out, rooted) ==
    IF i > Len(comps) THEN out
    ELSE LET c == comps[i] IN
         IF c = EmptyStr \/ c = Dot THEN CleanComps(comps, i + 1, out, rooted)
         ELSE IF c = DotDot THEN
              IF Len(out) > 0 /\ Last(out) # DotDot
                 THEN CleanComps(comps, i + 1, Front(out), rooted)
              ELSE IF rooted THEN CleanComps(comps, i + 1, out, rooted)
              ELSE CleanComps(comps, i + 1, Append(out, c), rooted)
         ELSE CleanComps(comps, i + 1, Append(out, c), rooted)

\* filepath.Clean(path)
Clean(path) ==
    IF path = EmptyStr THEN Dot
    ELSE LET rooted == path[1] = Slash
             body == JoinComps(CleanComps(Split(path), 1, << >>, rooted))
             res == IF rooted THEN <<Slash>> \o body ELSE body
         IN IF res = EmptyStr THEN Dot ELSE res

\* filepath.Join(a, b): empty elements are ignored, the rest is joined with
\* a separator and cleaned; the result is empty when both are
Join(a, b) ==
    IF a = EmptyStr /\ b = EmptyStr THEN EmptyStr
    ELSE IF a = EmptyStr THEN Clean(b)
    ELSE IF b = EmptyStr THEN Clean(a)
    ELSE Clean(a \o <<Slash>> \o b)

\* the index of the last separator of s, 0 when there is none
RECURSIVE LastSlash(_, _)
LastSlash(s, i) ==
    IF i = 0 THEN 0
    ELSE IF s[i] = Slash THEN i
    ELSE LastSlash(s, i - 1)

\* filepath.Dir(path): all but the last element, cleaned
Dir(path) == Clean(SubSeq(path, 1, LastSlash(path, Len(path))))

\* path without its trailing separators
RECURSIVE StripTrailingSlashes(_)
StripTrailingSlashes(s) ==
    IF Len(s) > 0 /\ Last(s) = Slash THEN StripTrailingSlashes(Front(s)) ELSE s

\* filepath.Base(path): the last element of path
Base(path) ==
    IF path = EmptyStr THEN Dot
    ELSE LET p == StripTrailingSlashes(path)
             i == LastSlash(p, Len(p))
         IN IF p = EmptyStr THEN <<Slash>>
            ELSE SubSeq(p, i + 1, Len(p))

\* sort.Strings order: byte-wise lexicographic, with "." < "/" < letters < "~"
CharRank(c) ==
    CASE c = "." -> 1
      [] c = "/" -> 2
      [] c = "a" -> 3
      [] c = "b" -> 4
      [] c = "c" -> 5
      [] c = "h" -> 6
      [] c = "n" -> 7
      [] c = "q" -> 8
      [] c = "~" -> 9
      [] OTHER -> 10

RECURSIVE StrLess(_, _)
StrLess(s, t) ==
    IF t = EmptyStr THEN FALSE
    ELSE IF s = EmptyStr THEN TRUE
    ELSE IF s[1] = t[1] THEN StrLess(Tail(s), Tail(t))
    ELSE CharRank(s[1]) < CharRank(t[1])

\* the elements of a finite set of strings in ascending order
RECURSIVE SortStrings(_)
SortStrings(set) ==
    IF set = {} THEN << >>
    ELSE LET least == CHOOSE s \in set : \A t \in set \ {s} : StrLess(s, t)
         IN <<least>> \o SortStrings(set \ {least})

----------------------------------------------------------------------------
(* State *)

VARIABLES
    pc,            \* "start", "running" (inside LaunchVaultTUI), "exited"
    caller,        \* the command that runs: "launchVaultTUI" (noted vault),
                   \* "ensureVault" (noted), "createVault" (noted vault create),
                   \* "openVaultByNameOrIndex" (noted vault --open)
    cfgVaults,     \* the configuration file's vaults
    cfgCurrent,    \* the configuration file's current_vault
    callerVaults,  \* the caller's local slice vaults
    m,             \* the vaultModel
    dirs,          \* the directories on disk
    files,         \* the files on disk: path -> content
    writeLog,      \* the calls of writeVaultConfig so far: file and result
    outcome        \* what the caller did with the flow's result

vars == <<pc, caller, cfgVaults, cfgCurrent, callerVaults, m, dirs, files, writeLog, outcome>>

----------------------------------------------------------------------------
(* The environment: home directory, working directory, directory tree *)

\* os.UserHomeDir(), taken to succeed
Home == <<"/", "h">>

\* the working directory relative paths are resolved against
Cwd == Home

\* file names the program uses, each a single token
VaultJson == <<"vault.json">>
TemplatesName == <<"templates">>
VaultLogName == <<"vault.log">>
HistoryLogName == <<"history.log">>

\* the directories that exist when the command starts
InitialDirs ==
    { <<"/">>, <<"/", "h">>,
      <<"/", "h", "/", "a">>, <<"/", "h", "/", "a", "b">>,
      <<"/", "h", "/", "b">>, <<"/", "h", "/", "a", "/", "a">> }

\* the absolute clean path the operating system resolves path to
Resolve(path) ==
    IF path = EmptyStr THEN EmptyStr
    ELSE IF path[1] = Slash THEN Clean(path)
    ELSE Clean(Cwd \o <<Slash>> \o path)

\* path names a directory that can be read
IsDir(path) == path # EmptyStr /\ Resolve(path) \in dirs

\* the names of the directories directly inside the directory dir
ChildDirNames(dir) == { Base(d) : d \in { x \in dirs : x # dir /\ Dir(x) = dir } }

\* a listing in descending order
listDirsDescending(base) ==
    IF ~IsDir(base) THEN <<base>>
    ELSE LET asc == SortStrings({ Join(base, n) : n \in ChildDirNames(Resolve(base)) })
         IN [ i \in 1..Len(asc) |-> asc[Len(asc) + 1 - i] ]

\* listDirs(base): the subdirectories of base, joined to base and sorted;
\* [base] when base cannot be read
listDirs(base) ==
    IF ~IsDir(base) THEN <<base>>
    ELSE SortStrings({ Join(base, n) : n \in ChildDirNames(Resolve(base)) })

getInitialDirs == listDirs(Home)

\* expandPath(path): a leading ~ is replaced by the home directory
expandPath(path) ==
    IF Len(path) > 0 /\ path[1] = "~" THEN Join(Home, Tail(path)) ELSE path

\* the elements of seq that satisfy strings.HasPrefix(d, base), in order
RECURSIVE KeepPrefixed(_, _)
KeepPrefixed(seq, base) ==
    IF seq = << >> THEN << >>
    ELSE IF HasPrefix(Head(seq), base)
         THEN <<Head(seq)>> \o KeepPrefixed(Tail(seq), base)
         ELSE KeepPrefixed(Tail(seq), base)

\* a filter that matches the typed text as it is, without expanding it
filterDirsUnexpanded(mdirs, prefix) ==
    IF prefix = EmptyStr THEN mdirs
    ELSE LET parent0 == Dir(prefix)
             parent == IF parent0 = Dot \/ parent0 = <<Slash>> THEN Home ELSE parent0
             filtered == KeepPrefixed(listDirs(parent), prefix)
         IN IF Len(filtered) = 0 THEN <<prefix>> ELSE filtered

\* directoryPickerModel.filterDirs(prefix), m.dirs given as mdirs
filterDirs(mdirs, prefix) ==
    IF prefix = EmptyStr THEN mdirs
    ELSE LET base == expandPath(prefix)
             parent0 == Dir(base)
             parent == IF parent0 = Dot \/ parent0 = <<Slash>> THEN Home ELSE parent0
             filtered == KeepPrefixed(listDirs(parent), base)
         IN IF Len(filtered) = 0 /\ base # EmptyStr THEN <<base>> ELSE filtered

----------------------------------------------------------------------------
(* Keys *)

\* characters typed into the Directory Picker's input
PickerChars == {"~", "/", "a"}

\* characters typed into the name input
NameChars == {"q"}

\* the keys of the Directory Picker that type no character
PickerNavKeys == {"q", "esc", "enter", "up", "down", "backspace"}

PickerKeys == PickerNavKeys \cup PickerChars
\* the keys of the name entry that type no character
NameNavKeys == {"esc", "enter", "backspace"}

NameKeys == NameNavKeys \cup NameChars
ListKeys == {"q", "esc", "enter", "up", "down", "D", "y"}
DeleteKeys == {"y", "Y", "n", "N", "esc", "enter"}

\* the keys sent to the flow in a state that has no case in Update
IgnoredKeys == {"q", "enter"}

\* textinput.Model.Update on a key: a character is appended while the
\* limit allows, backspace removes the last character
TextInputUpdate(value, key, chars) ==
    IF key = "backspace" THEN (IF value = EmptyStr THEN value ELSE Front(value))
    ELSE IF key \in chars /\ Len(value) < MaxInputLen THEN Append(value, key)
    ELSE value

----------------------------------------------------------------------------
(* The Directory Picker (directory_picker.go) *)

NoPickerResult == [Path |-> EmptyStr, Cancelled |-> FALSE]

NewDirectoryPickerModel ==
    [ input |-> EmptyStr,
      dirs |-> getInitialDirs,
      filteredDirs |-> << >>,
      selectedIdx |-> 0,
      result |-> NoPickerResult,
      inputError |-> "",
      state |-> 0 ]

\* a re-clamp that only keeps the index from going negative
ClampIdxLowOnly(idx, n) == IF idx < 0 THEN 0 ELSE idx

\* the re-clamp of selectedIdx after a re-filter
ClampIdx(idx, n) ==
    LET hi == IF idx >= n THEN n - 1 ELSE idx
    IN IF hi < 0 THEN 0 ELSE hi

\* case "up"
PickerUp(pm) ==
    IF pm.selectedIdx > 0 THEN [pm EXCEPT !.selectedIdx = pm.selectedIdx - 1] ELSE pm

\* case "down"
PickerDown(pm) ==
    IF pm.selectedIdx < Len(pm.filteredDirs) - 1
    THEN [pm EXCEPT !.selectedIdx = pm.selectedIdx + 1] ELSE pm

\* a confirmation that prefers the typed text to the highlighted candidate
PickerEnterTextFirst(pm) ==
    IF pm.input # EmptyStr
    THEN [pm EXCEPT !.result.Path = expandPath(pm.input), !.state = 1]
    ELSE IF pm.selectedIdx >= 0 /\ pm.selectedIdx < Len(pm.filteredDirs)
    THEN [pm EXCEPT !.result.Path = pm.filteredDirs[pm.selectedIdx + 1], !.state = 1]
    ELSE [pm EXCEPT !.inputError = "Path cannot be empty."]

\* a confirmation that does not reject an empty input
PickerEnterUnchecked(pm) ==
    IF pm.selectedIdx >= 0 /\ pm.selectedIdx < Len(pm.filteredDirs)
    THEN [pm EXCEPT !.result.Path = pm.filteredDirs[pm.selectedIdx + 1], !.state = 1]
    ELSE [pm EXCEPT !.result.Path = expandPath(pm.input), !.state = 1]

\* case "enter"
PickerEnter(pm) ==
    IF pm.selectedIdx >= 0 /\ pm.selectedIdx < Len(pm.filteredDirs)
    THEN [pm EXCEPT !.result.Path = pm.filteredDirs[pm.selectedIdx + 1], !.state = 1]
    ELSE IF pm.input = EmptyStr
    THEN [pm EXCEPT !.inputError = "Path cannot be empty."]
    ELSE [pm EXCEPT !.result.Path = expandPath(pm.input), !.state = 1]

\* any other message: the input handles it, then re-filter and re-clamp
PickerType(pm, key) ==
    LET input == TextInputUpdate(pm.input, key, PickerChars)
        filtered == filterDirs(pm.dirs, input)
    IN [pm EXCEPT !.input = input,
                 !.filteredDirs = filtered,
                 !.selectedIdx = ClampIdx(pm.selectedIdx, Len(filtered))]

\* an update that handles the keys whatever the picker's state is
DirPickerUpdateAlways(pm, key) ==
    IF key \in {"q", "esc"} THEN [pm EXCEPT !.result.Cancelled = TRUE, !.state = 1]
    ELSE IF key = "enter" THEN PickerEnter(pm)
    ELSE IF key = "up" THEN PickerUp(pm)
    ELSE IF key = "down" THEN PickerDown(pm)
    ELSE PickerType(pm, key)

\* directoryPickerModel.Update(msg) for a key message
DirPickerUpdate(pm, key) ==
    IF pm.state # 0 THEN pm
    ELSE IF key \in {"q", "esc"} THEN [pm EXCEPT !.result.Cancelled = TRUE, !.state = 1]
    ELSE IF key = "enter" THEN PickerEnter(pm)
    ELSE IF key = "up" THEN PickerUp(pm)
    ELSE IF key = "down" THEN PickerDown(pm)
    ELSE PickerType(pm, key)

----------------------------------------------------------------------------
(* Vaults, the registry and the files *)

\* models.Vault, as far as the registry keeps it
Vault(name, path) == [Name |-> name, Path |-> path]

\* the vaults a registry can hold when the command starts, in order
VaultPool ==
    << Vault(<<"a">>, <<"/", "h", "/", "a">>),
       Vault(<<"b">>, <<"/", "h", "/", "b">>),
       Vault(<<"a">>, <<"/", "h", "/", "a", "b">>),
       Vault(<<"c">>, <<"/", "h", "/", "a", "/", "a">>) >>

\* the zero time.Time
ZeroTime == "0001-01-01T00:00:00Z"

NoteContent == [kind |-> "note"]
TruncatedContent == [kind |-> "empty"]

\* a configuration whose paths are not joined to the vault's directory
VaultConfigUnjoined(name, path) ==
    [ kind |-> "config",
      name |-> name,
      templates_path |-> TemplatesName,
      log_path |-> VaultLogName,
      history_path |-> HistoryLogName,
      supported_types |-> <<".md", ".pdf">>,
      ignore_patterns |-> <<".git", "node_modules">>,
      created_at |-> ZeroTime,
      modified_at |-> ZeroTime ]

\* models.VaultConfig as the flow builds it for a vault at path
VaultConfig(name, path) ==
    [ kind |-> "config",
      name |-> name,
      templates_path |-> Join(path, TemplatesName),
      log_path |-> Join(path, VaultLogName),
      history_path |-> Join(path, HistoryLogName),
      supported_types |-> <<".md", ".pdf">>,
      ignore_patterns |-> <<".git", "node_modules">>,
      created_at |-> ZeroTime,
      modified_at |-> ZeroTime ]

\* the file the sidecar of the vault at path lives in
SidecarFile(path) == Resolve(Join(path, VaultJson))

NoteFile(path) == Resolve(Join(path, <<"n">>))

\* the files on disk when the command starts: every vault directory of the
\* pool holds a sidecar and a note
InitialFiles ==
    LET paths == { VaultPool[i].Path : i \in 1..Len(VaultPool) }
        named(f) == CHOOSE i \in 1..Len(VaultPool) :
                        f \in {SidecarFile(VaultPool[i].Path), NoteFile(VaultPool[i].Path)}
    IN [ f \in { SidecarFile(q) : q \in paths } \cup { NoteFile(q) : q \in paths } |->
           IF f = NoteFile(VaultPool[named(f)].Path) THEN NoteContent
           ELSE VaultConfig(VaultPool[named(f)].Name, VaultPool[named(f)].Path) ]

\* a containment test that compares the display names
vaultContainsByName(vaults, v) ==
    \E i \in 1..Len(vaults) : vaults[i].Name = v.Name

\* cmd.vaultContains(vaults, v)
RECURSIVE vaultContains(_, _)
vaultContains(vaults, v) ==
    IF vaults = << >> THEN FALSE
    ELSE IF Head(vaults).Path = v.Path THEN TRUE
    ELSE vaultContains(Tail(vaults), v)

\* a removal that cuts the list at idx, losing the entries after it
RemoveAtCutting(vaults, idx) == SubSeq(vaults, 1, idx)

\* append(m.vaults[:idx], m.vaults[idx+1:]...): the slice the flow keeps
RemoveAt(vaults, idx) ==
    SubSeq(vaults, 1, idx) \o SubSeq(vaults, idx + 2, Len(vaults))

\* the same append as seen through the caller's slice, which shares the
\* array and keeps its length: the elements after idx are copied one place
\* down over the first n elements, the rest stays
SharedArrayAfterRemove(backing, n, idx) ==
    [ j \in 1..Len(backing) |->
        IF j > idx /\ j < n THEN backing[j + 1] ELSE backing[j] ]

\* the list items newVaultModel and the delete handler build from vaults
CreateItem == [name |-> <<"+ Create New Vault">>, path |-> EmptyStr]

ListItems(vaults) ==
    [ i \in 1..(Len(vaults) + 1) |->
        IF i <= Len(vaults) THEN [name |-> vaults[i].Name, path |-> vaults[i].Path]
        ELSE CreateItem ]

\* a cursor that can move one place past the last item
ListCursorUpdatePastEnd(cursor, key, n) ==
    IF key = "up" THEN (IF cursor > 0 THEN cursor - 1 ELSE cursor)
    ELSE IF key = "down" THEN (IF cursor < n THEN cursor + 1 ELSE cursor)
    ELSE cursor

\* list.Model.Update on a key: the cursor moves within the items
ListCursorUpdate(cursor, key, n) ==
    IF key = "up" THEN (IF cursor > 0 THEN cursor - 1 ELSE cursor)
    ELSE IF key = "down" THEN (IF cursor < n - 1 THEN cursor + 1 ELSE cursor)
    ELSE cursor

\* textinput.Model.SetValue
SetValue(v) == IF Len(v) > MaxInputLen THEN SubSeq(v, 1, MaxInputLen) ELSE v

NoResult == [Name |-> EmptyStr, Path |-> EmptyStr, Cancelled |-> FALSE, Err |-> "nil"]

\* newVaultModel(vaults)
newVaultModel(vaults) ==
    [ vaults |-> vaults,
      items |-> ListItems(vaults),
      cursor |-> 0,
      nameInput |-> EmptyStr,
      state |-> "stateList",
      result |-> NoResult,
      inputError |-> "",
      dirPicker |-> NewDirectoryPickerModel,
      deleteIdx |-> 0 ]

----------------------------------------------------------------------------
(* The registry as the commands load it, and the start of a command *)

Paths(vaults) == { vaults[i].Path : i \in 1..Len(vaults) }

\* loadVaults(): the registry as saveVaults stored it
loadVaults == cfgVaults

\* the commands that run the Vault Flow
FlowCallers == {"launchVaultTUI", "ensureVault"}

\* the commands that update the registry without the flow
DirectCallers == {"createVault", "openVaultByNameOrIndex"}

\* the command starts with a registry of at most maxVaults vaults
InitWith(maxVaults) ==
    /\ pc = "start"
    /\ caller \in FlowCallers \cup DirectCallers
    /\ cfgVaults \in { SubSeq(VaultPool, 1, n) : n \in 0..maxVaults }
    /\ cfgCurrent \in {EmptyStr} \cup Paths(cfgVaults)
    /\ callerVaults = << >>
    /\ dirs = InitialDirs
    /\ files = InitialFiles
    /\ m = newVaultModel(<< >>)
    /\ writeLog = << >>
    /\ outcome = "none"

Init == InitWith(MaxInitVaults)

\* the runs with typed text enter the flow from ensureVault, the flow being
\* the same for either caller
InitTyping == InitWith(MaxTypingVaults) /\ caller # "launchVaultTUI"

----------------------------------------------------------------------------
(* The callers, up to the flow *)

\* launchVaultTUI, and ensureVault when no current vault is found:
\* vaults := loadVaults(); tui.LaunchVaultTUI(vaults, currentVault)
Launch ==
    /\ pc = "start"
    /\ \/ caller = "launchVaultTUI"
       \/ /\ caller = "ensureVault"
          /\ (cfgCurrent = EmptyStr \/ cfgCurrent \notin Paths(loadVaults))
    /\ callerVaults' = loadVaults
    /\ m' = newVaultModel(loadVaults)
    /\ pc' = "running"
    /\ UNCHANGED <<caller, cfgVaults, cfgCurrent, dirs, files, writeLog, outcome>>

\* ensureVault when the current vault is registered: it is reported
EnsureVaultFound ==
    /\ pc = "start"
    /\ caller = "ensureVault"
    /\ cfgCurrent # EmptyStr
    /\ cfgCurrent \in Paths(loadVaults)
    /\ pc' = "exited"
    /\ outcome' = "current"
    /\ UNCHANGED <<caller, cfgVaults, cfgCurrent, callerVaults, m, dirs, files, writeLog>>

----------------------------------------------------------------------------
(* The Vault Flow: vaultModel.Update, one action per state of the switch *)

\* a quit that reports the cancellation as an error as well
ListQuitWithErr(vm) ==
    [vm EXCEPT !.result.Cancelled = TRUE, !.result.Err = "cancelled", !.state = "stateDone"]

\* stateList, "q" or "esc"
ListQuit(vm) ==
    [vm EXCEPT !.result.Cancelled = TRUE, !.state = "stateDone"]

\* an enter that always takes the first vault of the list
ListEnterFirst(vm) ==
    IF vm.cursor = Len(vm.vaults)
    THEN [vm EXCEPT !.state = "stateDirPicker", !.dirPicker = NewDirectoryPickerModel]
    ELSE [vm EXCEPT !.result.Name = vm.vaults[1].Name,
                    !.result.Path = vm.vaults[1].Path,
                    !.state = "stateDone"]

\* an enter that reopens the picker the flow already holds
ListEnterReopening(vm) ==
    IF vm.cursor = Len(vm.vaults)
    THEN [vm EXCEPT !.state = "stateDirPicker",
                    !.dirPicker.state = 0,
                    !.dirPicker.result = NoPickerResult]
    ELSE [vm EXCEPT !.result.Name = vm.vaults[vm.cursor + 1].Name,
                    !.result.Path = vm.vaults[vm.cursor + 1].Path,
                    !.state = "stateDone"]

\* stateList, "enter": idx := m.list.Index()
ListEnter(vm) ==
    IF vm.cursor = Len(vm.vaults)
    THEN [vm EXCEPT !.state = "stateDirPicker", !.dirPicker = NewDirectoryPickerModel]
    ELSE [vm EXCEPT !.result.Name = vm.vaults[vm.cursor + 1].Name,
                    !.result.Path = vm.vaults[vm.cursor + 1].Path,
                    !.state = "stateDone"]

\* a delete request that targets the first vault whatever is highlighted
ListDeleteFirst(vm) ==
    [vm EXCEPT !.state = "stateDeleteConfirm", !.deleteIdx = 0]

\* stateList, "D" on a vault entry
ListDelete(vm) ==
    [vm EXCEPT !.state = "stateDeleteConfirm", !.deleteIdx = vm.cursor]

UpdateList(key) ==
    /\ pc = "running"
    /\ m.state = "stateList"
    /\ m' = IF key \in {"q", "esc"} THEN ListQuit(m)
            ELSE IF key = "enter" THEN ListEnter(m)
            ELSE IF key = "D" /\ m.cursor < Len(m.vaults) THEN ListDelete(m)
            ELSE [m EXCEPT !.cursor = ListCursorUpdate(m.cursor, key, Len(m.items))]
    /\ UNCHANGED <<pc, caller, cfgVaults, cfgCurrent, callerVaults, dirs, files, writeLog, outcome>>

\* a resolution that leaves the name field as it was
PickerResolvedNoPrefill(vm) ==
    IF vm.dirPicker.result.Cancelled
    THEN [vm EXCEPT !.state = "stateList"]
    ELSE [vm EXCEPT !.result.Path = vm.dirPicker.result.Path,
                    !.state = "stateNameInput"]

\* stateDirPicker, once the picker is done (m.dirPicker.state == 1)
PickerResolved(vm) ==
    IF vm.dirPicker.result.Cancelled
    THEN [vm EXCEPT !.state = "stateList"]
    ELSE [vm EXCEPT !.result.Path = vm.dirPicker.result.Path,
                    !.state = "stateNameInput",
                    !.nameInput = SetValue(Base(vm.dirPicker.result.Path))]

UpdateDirPicker(key) ==
    /\ pc = "running"
    /\ m.state = "stateDirPicker"
    /\ LET vm == [m EXCEPT !.dirPicker = DirPickerUpdate(m.dirPicker, key)]
       IN m' = IF vm.dirPicker.state = 1 THEN PickerResolved(vm) ELSE vm
    /\ UNCHANGED <<pc, caller, cfgVaults, cfgCurrent, callerVaults, dirs, files, writeLog, outcome>>

\* what writeVaultConfig returns: nil, os.Create's error, or the encoder's
WriteResults == {"nil", "create failed", "encode failed"}

\* os.Create can make the file: its directory exists
CanCreate(file) == Dir(file) \in dirs /\ file \notin dirs

Put(fn, key, value) ==
    [ x \in DOMAIN fn \cup {key} |-> IF x = key THEN value ELSE fn[x] ]

Drop(fn, key) == [ x \in DOMAIN fn \ {key} |-> fn[x] ]

\* the files after writeVaultConfig(path, cfg) returned err
FilesAfterWrite(fs, path, cfg, err) ==
    IF err = "create failed" THEN fs
    ELSE IF err = "encode failed" THEN Put(fs, SidecarFile(path), TruncatedContent)
    ELSE Put(fs, SidecarFile(path), cfg)

\* an escape that asks whether the directory is to be created
NameEscToConfirmCreate(vm) == [vm EXCEPT !.state = "stateConfirmCreate"]

\* stateNameInput, "esc"
NameEsc(vm) == [vm EXCEPT !.state = "stateInput"]

\* an empty name that ends the flow with an error
NameEmptyAsError(vm) ==
    [vm EXCEPT !.result.Err = "name cannot be empty", !.state = "stateDone"]

\* stateNameInput, "enter" on an empty name
NameEmpty(vm) == [vm EXCEPT !.inputError = "Name cannot be empty."]

\* a confirmation that drops the error of writeVaultConfig
NameDoneIgnoringErr(vm, err) ==
    [vm EXCEPT !.result.Name = vm.nameInput, !.state = "stateDone"]

\* stateNameInput, "enter" on a name, writeVaultConfig having returned err
NameDone(vm, err) ==
    [vm EXCEPT !.result.Name = vm.nameInput,
               !.result.Err = err,
               !.state = "stateDone"]

UpdateNameInput(key) ==
    /\ pc = "running"
    /\ m.state = "stateNameInput"
    /\ IF key = "enter" /\ m.nameInput # EmptyStr
       THEN \E err \in WriteResults :
              /\ err # "create failed" => CanCreate(SidecarFile(m.result.Path))
              /\ files' = FilesAfterWrite(files, m.result.Path,
                                          VaultConfig(m.nameInput, m.result.Path), err)
              /\ writeLog' = Append(writeLog, [file |-> SidecarFile(m.result.Path),
                                         err |-> err])
              /\ m' = NameDone(m, err)
       ELSE /\ m' = IF key = "esc" THEN NameEsc(m)
                    ELSE IF key = "enter" THEN NameEmpty(m)
                    ELSE [m EXCEPT !.nameInput = TextInputUpdate(m.nameInput, key, NameChars)]
            /\ UNCHANGED <<files, writeLog>>
    /\ UNCHANGED <<pc, caller, cfgVaults, cfgCurrent, callerVaults, dirs, outcome>>

\* a removal of everything in the vault's directory (os.RemoveAll's effect on its files)
FilesAfterRemoveAll(fs, path, removed) ==
    IF removed
    THEN [ x \in { y \in DOMAIN fs : ~HasPrefix(y, Resolve(path) \o <<Slash>>) } |-> fs[x] ]
    ELSE fs

\* the files after os.Remove(cfgPath) of the vault at path
FilesAfterRemove(fs, path, removed) ==
    IF removed THEN Drop(fs, SidecarFile(path)) ELSE fs

\* a confirmed deletion that removes the vault before the targeted one
DeleteYesNeighbour(vm) ==
    LET idx == IF vm.deleteIdx > 0 THEN vm.deleteIdx - 1 ELSE Len(vm.vaults) - 1
        vaults == RemoveAt(vm.vaults, idx)
    IN [vm EXCEPT !.vaults = vaults,
                  !.items = ListItems(vaults),
                  !.state = "stateList"]

\* a confirmed deletion that ends the flow with an error
DeleteYesToDone(vm) ==
    LET vaults == RemoveAt(vm.vaults, vm.deleteIdx)
    IN [vm EXCEPT !.vaults = vaults,
                  !.items = ListItems(vaults),
                  !.result.Err = "remove failed",
                  !.state = "stateDone"]

\* stateDeleteConfirm, "y" or "Y", idx < len(m.vaults)
DeleteYes(vm) ==
    LET vaults == RemoveAt(vm.vaults, vm.deleteIdx)
    IN [vm EXCEPT !.vaults = vaults,
                  !.items = ListItems(vaults),
                  !.state = "stateList"]

\* a declined deletion that forgets where the list stood
DeleteNoResetting(vm) == [vm EXCEPT !.state = "stateList", !.cursor = 0]

\* stateDeleteConfirm, "n", "N" or "esc"
DeleteNo(vm) == [vm EXCEPT !.state = "stateList"]

UpdateDeleteConfirm(key) ==
    /\ pc = "running"
    /\ m.state = "stateDeleteConfirm"
    /\ IF key \in {"y", "Y"} /\ m.deleteIdx < Len(m.vaults)
       THEN LET path == m.vaults[m.deleteIdx + 1].Path
            IN \E removed \in BOOLEAN :
                 /\ removed => SidecarFile(path) \in DOMAIN files
                 /\ files' = FilesAfterRemove(files, path, removed)
                 /\ m' = DeleteYes(m)
                 /\ callerVaults' =
                        SharedArrayAfterRemove(callerVaults, Len(m.vaults), m.deleteIdx)
       ELSE /\ m' = IF key \in {"n", "N", "esc"} THEN DeleteNo(m) ELSE m
            /\ UNCHANGED <<callerVaults, files>>
    /\ UNCHANGED <<pc, caller, cfgVaults, cfgCurrent, dirs, writeLog, outcome>>

\* stateInput has no case in the switch: every message leaves the model as it is
UpdateInput(key) ==
    /\ pc = "running"
    /\ m.state = "stateInput"
    /\ UNCHANGED vars

----------------------------------------------------------------------------
(* The callers, after the flow *)

\* a launch that reports a cancellation only
LaunchFailsOnCancel(result) == result.Cancelled

\* LaunchVaultTUI returns an error instead of a vault
LaunchFails(result) == result.Cancelled \/ result.Err # "nil"

\* the vault LaunchVaultTUI returns
LaunchVault(result) == Vault(result.Name, result.Path)

\* the caller's vaults after: if !vaultContains(vaults, v) { append }
VaultsAfterSelect(vaults, v) ==
    IF vaultContains(vaults, v) THEN vaults ELSE Append(vaults, v)

\* an update that stores the caller's slice without the new vault
StoredAfterSelectDropping(stored, vaults, v) ==
    IF vaultContains(vaults, v) THEN stored ELSE vaults

\* the configuration's vaults after the caller's update: saveVaults runs
\* only for a vault the caller's slice does not contain
StoredAfterSelect(stored, vaults, v) ==
    IF vaultContains(vaults, v) THEN stored ELSE Append(vaults, v)

\* an end on an error that stores the caller's slice before it returns
FinishErrorSaving ==
    /\ pc = "running"
    /\ m.state = "stateDone"
    /\ LaunchFails(m.result)
    /\ pc' = "exited"
    /\ outcome' = "error"
    /\ cfgVaults' = callerVaults
    /\ UNCHANGED <<caller, cfgCurrent, callerVaults, m, dirs, files, writeLog>>

\* err != nil: launchVaultTUI prints and returns, ensureVault exits with 1
FinishError ==
    /\ pc = "running"
    /\ m.state = "stateDone"
    /\ LaunchFails(m.result)
    /\ pc' = "exited"
    /\ outcome' = "error"
    /\ UNCHANGED <<caller, cfgVaults, cfgCurrent, callerVaults, m, dirs, files, writeLog>>

\* the vault is registered if new, made current, and the configuration
\* written (WriteConfigAs succeeds or leaves the file as it was)
FinishSelected ==
    /\ pc = "running"
    /\ m.state = "stateDone"
    /\ ~LaunchFails(m.result)
    /\ callerVaults' = VaultsAfterSelect(callerVaults, LaunchVault(m.result))
    /\ \E written \in BOOLEAN :
         /\ cfgVaults' = IF written
                         THEN StoredAfterSelect(cfgVaults, callerVaults, LaunchVault(m.result))
                         ELSE cfgVaults
         /\ cfgCurrent' = IF written THEN LaunchVault(m.result).Path ELSE cfgCurrent
         /\ outcome' = IF written THEN "set" ELSE "config write failed"
    /\ pc' = "exited"
    /\ UNCHANGED <<caller, m, dirs, files, writeLog>>

----------------------------------------------------------------------------
(* The commands that do not enter the flow (cmd/vault.go) *)

\* the arguments given to "noted vault create"
CreateArgs ==
    { <<"~", "/", "a">>, <<"/", "h", "/", "b">>, <<"/", "h", "/", "n">>, <<"b">> }

\* the answers read at the prompt "Create it? [y/N]"
Responses == {"y", "Y", "yes", "n"}

\* strings.ToLower on an answer
ToLower(response) == IF response = "Y" THEN "y" ELSE response

\* the values given to --open
OpenInputs ==
    { <<"0">>, <<"1">>, <<"2">>, <<"1", "0">>, <<"-", "1">>,
      <<"a">>, <<"b">>, <<"c">>, <<"z">> }

DigitValue(c) ==
    CASE c = "0" -> 0 [] c = "1" -> 1 [] c = "2" -> 2 [] c = "3" -> 3
      [] c = "4" -> 4 [] c = "5" -> 5 [] c = "6" -> 6 [] c = "7" -> 7
      [] c = "8" -> 8 [] c = "9" -> 9 [] OTHER -> -1

RECURSIVE DigitsValue(_, _)
DigitsValue(s, acc) ==
    IF s = EmptyStr THEN acc ELSE DigitsValue(Tail(s), 10 * acc + DigitValue(Head(s)))

\* strconv.Atoi(s) on a short string: an optional sign and decimal digits
Atoi(s) ==
    LET signed == Len(s) > 0 /\ s[1] \in {"+", "-"}
        body == IF signed THEN Tail(s) ELSE s
        ok == Len(body) > 0 /\ \A i \in 1..Len(body) : DigitValue(body[i]) >= 0
        val == DigitsValue(body, 0)
    IN IF ok THEN [ok |-> TRUE, val |-> IF signed /\ s[1] = "-" THEN 0 - val ELSE val]
       ELSE [ok |-> FALSE, val |-> 0]

\* os.Stat(path) does not report that path is missing
Exists(path) ==
    /\ path # EmptyStr
    /\ (Resolve(path) \in dirs \/ Resolve(path) \in DOMAIN files)

\* the directory path and the directories above it
RECURSIVE PathAndParents(_)
PathAndParents(path) ==
    IF path = <<Slash>> \/ path = Dot THEN {path}
    ELSE {path} \cup PathAndParents(Dir(path))

\* the directories after a successful os.MkdirAll(path)
DirsAfterMkdirAll(ds, path) == ds \cup PathAndParents(Resolve(path))

\* createVault(path): noted vault create <path>
createVault(path) ==
    /\ pc = "start"
    /\ caller = "createVault"
    /\ LET expanded == expandPath(path)
           missing == ~Exists(expanded)
           newVault == Vault(Base(expanded), expanded)
       IN \E response \in Responses, made \in BOOLEAN, written \in BOOLEAN :
            IF missing /\ ToLower(response) \notin {"y", "yes"}
            THEN /\ outcome' = "creation cancelled"
                 /\ UNCHANGED <<cfgVaults, cfgCurrent, callerVaults, dirs>>
            ELSE IF missing /\ ~made
            THEN /\ outcome' = "mkdir failed"
                 /\ UNCHANGED <<cfgVaults, cfgCurrent, callerVaults, dirs>>
            ELSE /\ dirs' = IF missing THEN DirsAfterMkdirAll(dirs, expanded) ELSE dirs
                 /\ callerVaults' = VaultsAfterSelect(loadVaults, newVault)
                 /\ cfgVaults' = IF written
                                 THEN StoredAfterSelect(cfgVaults, loadVaults, newVault)
                                 ELSE cfgVaults
                 /\ cfgCurrent' = IF written THEN newVault.Path ELSE cfgCurrent
                 /\ outcome' = IF written THEN "created" ELSE "config write failed"
    /\ pc' = "exited"
    /\ UNCHANGED <<caller, m, files, writeLog>>

\* the index (from 1) of the first vault named input, 0 when there is none
RECURSIVE FirstNamed(_, _, _)
FirstNamed(vaults, input, i) ==
    IF i > Len(vaults) THEN 0
    ELSE IF vaults[i].Name = input THEN i
    ELSE FirstNamed(vaults, input, i + 1)

\* the index (from 1) of the vault --open input selects, 0 when it selects none
SelectedByNameOrIndex(vaults, input) ==
    LET n == Atoi(input)
    IN IF n.ok THEN (IF n.val < 1 \/ n.val > Len(vaults) THEN 0 ELSE n.val)
       ELSE FirstNamed(vaults, input, 1)

\* openVaultByNameOrIndex(input): noted vault --open <input>
openVaultByNameOrIndex(input) ==
    /\ pc = "start"
    /\ caller = "openVaultByNameOrIndex"
    /\ LET vaults == loadVaults
           sel == SelectedByNameOrIndex(vaults, input)
       IN /\ callerVaults' = vaults
          /\ IF Len(vaults) = 0
             THEN outcome' = "no vaults" /\ UNCHANGED cfgCurrent
             ELSE IF sel = 0
             THEN /\ outcome' = IF Atoi(input).ok THEN "invalid index" ELSE "not found"
                  /\ UNCHANGED cfgCurrent
             ELSE \E written \in BOOLEAN :
                    /\ cfgCurrent' = IF written THEN vaults[sel].Path ELSE cfgCurrent
                    /\ outcome' = IF written THEN "opened" ELSE "config write failed"
    /\ pc' = "exited"
    /\ UNCHANGED <<caller, cfgVaults, m, dirs, files, writeLog>>

\* after a command that did not enter the flow, another one of them is run
NextCommand ==
    /\ pc = "exited"
    /\ caller \in DirectCallers
    /\ pc' = "start"
    /\ caller' \in DirectCallers
    /\ callerVaults' = << >>
    /\ outcome' = "none"
    /\ UNCHANGED <<cfgVaults, cfgCurrent, m, dirs, files, writeLog>>

\* stateDone has no case in the switch, and tea.Quit has been returned:
\* a message that still arrives leaves the model as it is
UpdateDone(key) ==
    /\ pc = "running"
    /\ m.state = "stateDone"
    /\ UNCHANGED vars

----------------------------------------------------------------------------

\* a run in which the text inputs are navigated and cleared, not typed into
Next ==
    \/ Launch
    \/ EnsureVaultFound
    \/ \E key \in ListKeys : UpdateList(key)
    \/ \E key \in PickerNavKeys : UpdateDirPicker(key)
    \/ \E key \in NameNavKeys : UpdateNameInput(key)
    \/ \E key \in DeleteKeys : UpdateDeleteConfirm(key)
    \/ \E key \in IgnoredKeys : UpdateInput(key)
    \/ \E key \in IgnoredKeys : UpdateDone(key)
    \/ FinishError
    \/ FinishSelected
    \/ \E path \in CreateArgs : createVault(path)
    \/ \E input \in OpenInputs : openVaultByNameOrIndex(input)
    \/ NextCommand

Spec == Init /\ [][Next]_vars

\* a run in which characters are typed into the text inputs as well
NextTyping ==
    \/ Launch
    \/ EnsureVaultFound
    \/ \E key \in ListKeys : UpdateList(key)
    \/ \E key \in PickerKeys : UpdateDirPicker(key)
    \/ \E key \in NameKeys : UpdateNameInput(key)
    \/ \E key \in DeleteKeys : UpdateDeleteConfirm(key)
    \/ \E key \in IgnoredKeys : UpdateInput(key)
    \/ \E key \in IgnoredKeys : UpdateDone(key)
    \/ FinishError
    \/ FinishSelected
    \/ \E path \in CreateArgs : createVault(path)
    \/ \E input \in OpenInputs : openVaultByNameOrIndex(input)
    \/ NextCommand

SpecTyping == InitTyping /\ [][NextTyping]_vars

----------------------------------------------------------------------------
(* Properties *)

Range(seq) == { seq[i] : i \in 1..Len(seq) }

\* the number of entries of vaults with the path p
CountPath(vaults, p) == Cardinality({ i \in 1..Len(vaults) : vaults[i].Path = p })

\* the step taken on escape in the name entry
EscInNameEntry == UpdateNameInput("esc")

\* the step taken on an affirmative answer to the delete confirmation
DeleteConfirmed == UpdateDeleteConfirm("y") \/ UpdateDeleteConfirm("Y")

\* the vaults of the registry the flow was started with that were deleted in it
DeletedPaths == Paths(cfgVaults) \ Paths(m.vaults)

\* C1: escape in the name entry moves the flow back to the vault list, with
\* no directory created, no sidecar written and the vault list unchanged.
C1_EscReturnsToListing ==
    [][EscInNameEntry =>
         /\ m'.state = "stateList"
         /\ dirs' = dirs
         /\ files' = files
         /\ m'.vaults = m.vaults
         /\ m'.items = m.items]_vars

\* C2: once the caller has persisted the outcome of a flow in which vaults
\* were deleted, the registry holds no entry with a deleted vault's path
\* (unless a vault was created there again) and holds every other vault it
\* had exactly once.
C2_DeletedVaultsLeaveRegistry ==
    [][(FinishSelected /\ outcome' = "set") =>
         /\ \A p \in DeletedPaths \ {m.result.Path} : CountPath(cfgVaults', p) = 0
         /\ \A p \in Paths(m.vaults) : CountPath(cfgVaults', p) = 1]_vars

\* C9: escape in the name entry brings the flow back into the Directory
\* Picker with a fresh picker, and writes no sidecar file.
C9_EscReentersPicker ==
    [][EscInNameEntry =>
         /\ m'.state = "stateDirPicker"
         /\ m'.dirPicker = NewDirectoryPickerModel
         /\ files' = files
         /\ writeLog' = writeLog]_vars

\* C3: confirming the deletion of the vault at index i removes exactly that
\* entry from the flow's list, moves every later entry down by one place in
\* order, keeps "Create New Vault" the last displayed entry, and leaves the
\* flow in the vault list, not in Done.
C3_DeleteRemovesExactlyOne ==
    [][DeleteConfirmed =>
         LET i == m.deleteIdx
             n == Len(m.vaults)
         IN /\ i < n
            /\ Len(m'.vaults) = n - 1
            /\ \A j \in 1..i : m'.vaults[j] = m.vaults[j]
            /\ \A j \in (i + 1)..(n - 1) : m'.vaults[j] = m.vaults[j + 1]
            /\ Len(m'.items) = n
            /\ \A j \in 1..(n - 1) :
                 /\ m'.items[j].name = m'.vaults[j].Name
                 /\ m'.items[j].path = m'.vaults[j].Path
            /\ m'.items[n] = CreateItem
            /\ m'.state = "stateList"]_vars

\* the first of three vaults has been deleted, two entries have moved down
C3_Witness ==
    /\ pc = "running"
    /\ m.state = "stateList"
    /\ Len(callerVaults) = 3
    /\ m.deleteIdx = 0
    /\ m.vaults = <<cfgVaults[2], cfgVaults[3]>>

\* the write of the sidecar of the vault at path succeeded
WrittenOk(path) ==
    \E i \in 1..Len(writeLog) :
        writeLog[i].err = "nil" /\ writeLog[i].file = SidecarFile(path)

WriteFailed == \E i \in 1..Len(writeLog) : writeLog[i].err # "nil"

\* C4: an entry enters the flow's list, the caller's list or the persisted
\* registry only after the sidecar of its vault was written successfully,
\* and after a failed write neither the persisted registry nor the current
\* vault changes.
C4_AddedOnlyAfterWrite ==
    [][/\ caller \in FlowCallers =>
            \A v \in Range(cfgVaults') \ Range(cfgVaults) : WrittenOk(v.Path)
       /\ pc = "running" =>
            /\ \A v \in Range(callerVaults') \ Range(callerVaults) : WrittenOk(v.Path)
            /\ Range(m'.vaults) \subseteq Range(m.vaults)
       /\ WriteFailed => (cfgVaults' = cfgVaults /\ cfgCurrent' = cfgCurrent)]_vars

\* a created vault has been registered, its sidecar written
C4_Witness ==
    /\ pc = "exited"
    /\ outcome = "set"
    /\ WrittenOk(m.result.Path)
    /\ Len(cfgVaults) = Len(m.vaults) + 1
    /\ Last(cfgVaults) = LaunchVault(m.result)
    /\ cfgCurrent = m.result.Path

\* C5: while the Directory Picker is browsing, whenever its candidate list
\* is not empty the highlighted index lies in 0 .. len(candidates) - 1.
C5_HighlightInRange ==
    (Len(m.dirPicker.filteredDirs) > 0 /\ m.dirPicker.state = 0) =>
        /\ m.dirPicker.selectedIdx >= 0
        /\ m.dirPicker.selectedIdx <= Len(m.dirPicker.filteredDirs) - 1

\* the last of two remaining candidates is highlighted after typing
C5_Witness ==
    /\ m.state = "stateDirPicker"
    /\ m.dirPicker.input = <<"~", "a">>
    /\ Len(m.dirPicker.filteredDirs) = 2
    /\ m.dirPicker.selectedIdx = 1

\* C6: for a non-empty typed prefix p the candidate list holds only listed
\* subdirectories that have expandPath(p) as a string prefix, or, when no
\* listed subdirectory of the parent has it, exactly the one entry expandPath(p).
C6_FilteredByPrefix ==
    (m.dirPicker.state = 0 /\ m.dirPicker.input # EmptyStr) =>
        LET base == expandPath(m.dirPicker.input)
            dir == Dir(base)
            parent == IF dir \in {Dot, <<Slash>>} THEN Home ELSE dir
            matching == { d \in Range(listDirs(parent)) : HasPrefix(d, base) }
            f == m.dirPicker.filteredDirs
        IN IF matching # {}
           THEN /\ f # << >>
                /\ \A i \in 1..Len(f) : HasPrefix(f[i], base) /\ f[i] \in matching
           ELSE f = <<base>>

\* "~a" is typed: the two subdirectories of the home directory that start
\* with /h/a are the candidates
C6_Witness ==
    /\ m.state = "stateDirPicker"
    /\ m.dirPicker.input = <<"~", "a">>
    /\ m.dirPicker.filteredDirs = << <<"/", "h", "/", "a">>, <<"/", "h", "/", "a", "b">> >>

\* the path q lies below the directory p
IsSubpath(q, p) ==
    LET rq == Resolve(q)
        rp == Resolve(p)
    IN /\ rq # rp
       /\ HasPrefix(rq, IF rp = <<Slash>> THEN rp ELSE rp \o <<Slash>>)

\* C7: a vault created with the picker resolved to P and the name N
\* confirmed has a sidecar P/vault.json whose name is N and whose templates,
\* log and history paths lie below P, and the flow is Done with the outcome
\* {name: N, path: P}.
C7_CreatedVaultRoundTrip ==
    (m.state = "stateDone" /\ Len(writeLog) > 0 /\ Last(writeLog).err = "nil") =>
        LET P == m.dirPicker.result.Path
            N == m.nameInput
            f == Resolve(P \o <<Slash>> \o VaultJson)
        IN /\ f \in DOMAIN files
           /\ files[f].kind = "config"
           /\ files[f].name = N
           /\ IsSubpath(files[f].templates_path, P)
           /\ IsSubpath(files[f].log_path, P)
           /\ IsSubpath(files[f].history_path, P)
           /\ m.result = [Name |-> N, Path |-> P, Cancelled |-> FALSE, Err |-> "nil"]

\* "~/a" was typed, /h/a chosen, the name edited to "aq" and confirmed
C7_Witness ==
    /\ m.state = "stateDone"
    /\ WrittenOk(m.result.Path)
    /\ m.dirPicker.input = <<"~", "/", "a">>
    /\ m.result.Path = <<"/", "h", "/", "a">>
    /\ m.result.Name = <<"a", "q">>
    /\ files[<<"/", "h", "/", "a", "/", "vault.json">>].name = <<"a", "q">>

C10_SelectAddsNoDuplicate ==
    /\ [][FinishSelected =>
            LET p == LaunchVault(m.result).Path
            IN CountPath(cfgVaults, p) >= 1 =>
                 CountPath(cfgVaults', p) <= CountPath(cfgVaults, p)]_vars
    /\ [](\A v \in Range(VaultPool) \cup Range(callerVaults) \cup {LaunchVault(m.result)} :
            vaultContains(callerVaults, v) <=>
                \E i \in 1..Len(callerVaults) : callerVaults[i].Path = v.Path)

\* the first of three vaults was deleted and the second then selected
C10_Witness ==
    /\ pc = "exited"
    /\ outcome = "set"
    /\ Len(cfgVaults) = 3
    /\ m.vaults = <<cfgVaults[2], cfgVaults[3]>>
    /\ m.result.Path = cfgVaults[2].Path
    /\ cfgCurrent = cfgVaults[2].Path

C12_TimestampsSet ==
    (m.state = "stateDone" /\ Len(writeLog) > 0 /\ Last(writeLog).err = "nil") =>
        LET f == SidecarFile(m.result.Path)
        IN /\ f \in DOMAIN files
           /\ files[f].kind = "config"
           /\ files[f].created_at # ZeroTime
           /\ files[f].modified_at # ZeroTime

\* C13: in Done the outcome is a cancellation without error, an error
\* without cancellation, or a vault with its name and path and neither of
\* the two; and in Done no event changes the outcome or leaves Done.
C13_DoneOutcome ==
    /\ [](m.state = "stateDone" =>
            \/ m.result.Cancelled /\ m.result.Err = "nil"
            \/ ~m.result.Cancelled /\ m.result.Err # "nil"
            \/ /\ ~m.result.Cancelled
               /\ m.result.Err = "nil"
               /\ m.result.Name # EmptyStr
               /\ m.result.Path # EmptyStr)
    /\ [][m.state = "stateDone" =>
            (m'.state = "stateDone" /\ m'.result = m.result)]_vars

\* the flow was quit from the vault list after a vault had been deleted
C13_Witness ==
    /\ pc = "running"
    /\ m.state = "stateDone"
    /\ m.result = [NoResult EXCEPT !.Cancelled = TRUE]
    /\ Len(m.vaults) < Len(callerVaults)

\* C14: for a cancelled flow LaunchVaultTUI returns no error, and the caller
\* does not end as it does on a failure.
C14_CancelIsNotAnError ==
    (m.state = "stateDone" /\ m.result.Cancelled) =>
        /\ ~LaunchFails(m.result)
        /\ outcome # "error"

\* the text of a text input after the character c was typed into it
TextAfterTyping(value, c) ==
    IF Len(value) < MaxInputLen THEN Append(value, c) ELSE value

\* C15: in the Directory Picker and in the name entry the key q is a typed
\* character: it is appended to the text, the picker filters again, and the
\* screen is neither cancelled nor left.
C15_QIsTextOnEntryScreens ==
    [][/\ UpdateDirPicker("q") =>
            /\ m'.state = "stateDirPicker"
            /\ m'.dirPicker.state = 0
            /\ ~m'.dirPicker.result.Cancelled
            /\ m'.dirPicker.input = TextAfterTyping(m.dirPicker.input, "q")
            /\ m'.dirPicker.filteredDirs = filterDirs(m.dirPicker.dirs, m'.dirPicker.input)
       /\ UpdateNameInput("q") =>
            /\ m'.state = "stateNameInput"
            /\ m'.nameInput = TextAfterTyping(m.nameInput, "q")
            /\ ~m'.result.Cancelled]_vars

\* C16: while the Directory Picker is browsing with an empty input, from its
\* creation on, its candidates are the subdirectories of the home directory.
C16_EmptyInputShowsRoot ==
    (/\ pc = "running"
     /\ m.state = "stateDirPicker"
     /\ m.dirPicker.state = 0
     /\ m.dirPicker.input = EmptyStr) =>
        m.dirPicker.filteredDirs = listDirs(Home)

\* the keys that type no character into a text input
ControlKeys == ListKeys \cup PickerNavKeys \cup NameNavKeys \cup DeleteKeys

\* the keys that type a character
TypedKeys == PickerChars \cup NameChars

\* the key is sent to the flow, in whichever state it is
KeyEvent(key) ==
    \/ UpdateList(key)
    \/ UpdateDirPicker(key)
    \/ UpdateNameInput(key)
    \/ UpdateDeleteConfirm(key)
    \/ UpdateInput(key)

\* a key event, of a control key or of a typed one, that changes the model
\* of the flow
KeyChangesModel ==
    \/ \E key \in ControlKeys : KeyEvent(key) /\ m' # m
    \/ \E key \in TypedKeys : KeyEvent(key) /\ m' # m

\* C17: no reachable state of the flow short of Done is a trap: in each of
\* them some key event changes the model, as it must for Done to be
\* reachable from it.
C17_NoTrapState ==
    (pc = "running" /\ m.state # "stateDone") => ENABLED KeyChangesModel

\* C18: the persisted registry, which starts without two entries of one
\* path, never holds two entries of one path.
C18_NoDuplicatePaths ==
    \A p \in Paths(cfgVaults) : CountPath(cfgVaults, p) = 1

\* the step taken on enter in the vault list
EnterInList == UpdateList("enter")

\* C19: enter on the vault entry at index i of the list ends the flow in
\* Done with the name and the path of the i-th vault of the flow's list as
\* it then is, neither cancelled nor failed.
C19_EnterSelectsHighlighted ==
    [][(EnterInList /\ m.cursor < Len(m.vaults)) =>
         /\ m'.state = "stateDone"
         /\ m'.result = [ Name |-> m.vaults[m.cursor + 1].Name,
                          Path |-> m.vaults[m.cursor + 1].Path,
                          Cancelled |-> FALSE,
                          Err |-> "nil" ]
         /\ m.items[m.cursor + 1].name = m'.result.Name
         /\ m.items[m.cursor + 1].path = m'.result.Path]_vars

\* the first of three vaults was deleted, the last one then selected at
\* index 1
C19_Witness ==
    /\ pc = "running"
    /\ m.state = "stateDone"
    /\ Len(cfgVaults) = 3
    /\ m.vaults = <<cfgVaults[2], cfgVaults[3]>>
    /\ m.cursor = 1
    /\ m.result.Path = cfgVaults[3].Path
    /\ m.result.Name = cfgVaults[3].Name

\* C20: enter on "Create New Vault" puts the flow into the picking of a
\* directory with a Directory Picker that browses, has an empty input, the
\* index 0, no error and no result, whatever the picker before it held.
C20_FreshPickerOnEntry ==
    [][(EnterInList /\ m.cursor = Len(m.vaults)) =>
         /\ m'.state = "stateDirPicker"
         /\ m'.dirPicker.state = 0
         /\ m'.dirPicker.input = EmptyStr
         /\ m'.dirPicker.selectedIdx = 0
         /\ m'.dirPicker.inputError = ""
         /\ m'.dirPicker.result = NoPickerResult]_vars

\* a picker that was cancelled with a typed text, an error and a moved
\* index is held while "Create New Vault" is highlighted
C20_Witness ==
    /\ pc = "running"
    /\ m.state = "stateList"
    /\ m.cursor = Len(m.vaults)
    /\ m.dirPicker.state = 1
    /\ m.dirPicker.result.Cancelled
    /\ m.dirPicker.input # EmptyStr
    /\ m.dirPicker.inputError # ""
    /\ m.dirPicker.selectedIdx > 0

\* the step in which the nested Directory Picker becomes resolved
PickerResolves ==
    /\ pc = "running"
    /\ m.state = "stateDirPicker"
    /\ m'.dirPicker.state = 1

DeleteInList == UpdateList("D")

\* C22: D on a highlighted vault moves the flow to the delete confirmation
\* with that entry as its target; D on "Create New Vault" leaves the flow in
\* the vault list, the vaults and the displayed list unchanged.
C22_DeleteTargetsHighlighted ==
    [][DeleteInList =>
         IF m.cursor < Len(m.vaults)
         THEN /\ m'.state = "stateDeleteConfirm"
              /\ m'.deleteIdx = m.cursor
              /\ m'.vaults = m.vaults
              /\ m'.items = m.items
         ELSE /\ m'.state = "stateList"
              /\ m'.vaults = m.vaults
              /\ m'.items = m.items
              /\ m'.cursor = m.cursor]_vars

\* the last of three vaults is the target of the confirmation
C22_Witness ==
    /\ m.state = "stateDeleteConfirm"
    /\ Len(m.vaults) = 3
    /\ m.cursor = 2
    /\ m.deleteIdx = 2

\* C23: in the delete confirmation the target is the highlighted entry and
\* lies within the vault list, no step that stays in the confirmation
\* changes the target or the vaults, and an affirmative answer removes the
\* vault of the highlighted entry and no other.
C23_RemovedIsHighlighted ==
    /\ [](m.state = "stateDeleteConfirm" =>
            /\ m.deleteIdx >= 0
            /\ m.deleteIdx < Len(m.vaults)
            /\ m.deleteIdx = m.cursor
            /\ m.items[m.cursor + 1].path = m.vaults[m.deleteIdx + 1].Path
            /\ m.items[m.cursor + 1].name = m.vaults[m.deleteIdx + 1].Name)
    /\ [][(m.state = "stateDeleteConfirm" /\ m'.state = "stateDeleteConfirm") =>
            (m'.deleteIdx = m.deleteIdx /\ m'.vaults = m.vaults)]_vars
    /\ [][DeleteConfirmed =>
            /\ Len(m'.vaults) = Len(m.vaults) - 1
            /\ \A j \in 1..Len(m'.vaults) :
                 m'.vaults[j] = m.vaults[IF j <= m.cursor THEN j ELSE j + 1]]_vars

\* the second of three vaults was highlighted and has been removed
C23_Witness ==
    /\ pc = "running"
    /\ m.state = "stateList"
    /\ Len(callerVaults) = 3
    /\ m.cursor = 1
    /\ m.deleteIdx = 1
    /\ m.vaults = <<cfgVaults[1], cfgVaults[3]>>

\* the step taken on a declining answer to the delete confirmation
DeleteDeclined ==
    UpdateDeleteConfirm("n") \/ UpdateDeleteConfirm("N") \/ UpdateDeleteConfirm("esc")

\* C24: n, N or escape in the delete confirmation returns the flow to the
\* vault list with the vaults, the displayed list and the files unchanged;
\* a key that neither affirms nor declines changes nothing at all.
C24_DeclineChangesNothing ==
    [][/\ DeleteDeclined =>
            /\ m' = [m EXCEPT !.state = "stateList"]
            /\ callerVaults' = callerVaults
            /\ files' = files
            /\ dirs' = dirs
       /\ UpdateDeleteConfirm("enter") => UNCHANGED vars]_vars

\* the deletion of the second of three vaults was declined
C24_Witness ==
    /\ pc = "running"
    /\ m.state = "stateList"
    /\ m.deleteIdx = 1
    /\ m.cursor = 1
    /\ m.vaults = cfgVaults
    /\ Len(m.vaults) = 3
    /\ files = InitialFiles

\* the step taken on enter in the name entry
EnterInNameEntry == UpdateNameInput("enter")

\* C25: enter on an empty name sets the validation error and leaves the flow
\* in the name entry: no sidecar is written, the outcome stays empty of a
\* name, an error and a cancellation.
C25_EmptyNameIsRecovered ==
    [][(EnterInNameEntry /\ m.nameInput = EmptyStr) =>
         /\ m'.inputError # ""
         /\ m'.state = "stateNameInput"
         /\ m'.result = m.result
         /\ m'.result.Err = "nil"
         /\ m'.result.Name = EmptyStr
         /\ ~m'.result.Cancelled
         /\ files' = files
         /\ writeLog' = writeLog]_vars

\* the name was cleared and confirmed: the error is shown in the name entry
C25_Witness ==
    /\ pc = "running"
    /\ m.state = "stateNameInput"
    /\ m.nameInput = EmptyStr
    /\ m.inputError # ""
    /\ writeLog = << >>

\* C26: a confirmed non-empty name whose sidecar write fails ends the flow
\* in Done with that error after the one write attempt, no write follows
\* it, and LaunchVaultTUI returns the error, so that the caller gets no vault.
C26_WriteFailureEndsFlow ==
    /\ [][(EnterInNameEntry /\ m.nameInput # EmptyStr) =>
            /\ Len(writeLog') = Len(writeLog) + 1
            /\ m'.state = "stateDone"
            /\ m'.result.Err = Last(writeLog').err
            /\ Last(writeLog').err # "nil" =>
                 /\ ~m'.result.Cancelled
                 /\ LaunchFails(m'.result)]_vars
    /\ [][m.state = "stateDone" => writeLog' = writeLog]_vars
    /\ [][FinishSelected => ~WriteFailed]_vars
    /\ []((WriteFailed /\ pc = "exited") => (outcome = "error" /\ Len(writeLog) = 1))

\* os.Create failed for the sidecar: the caller has reported the error
C26_Witness ==
    /\ pc = "exited"
    /\ outcome = "error"
    /\ m.state = "stateDone"
    /\ m.result.Err = "create failed"
    /\ writeLog = << [file |-> SidecarFile(m.result.Path), err |-> "create failed"] >>

\* C27: an affirmative answer to the delete confirmation removes the target
\* from the flow's list and returns to the vault list, whether the sidecar
\* file was removed or not: the outcome stays without an error and the flow
\* is not in Done.
C27_RemoveFailureIgnored ==
    [][DeleteConfirmed =>
         /\ m'.state = "stateList"
         /\ m'.result = NoResult
         /\ Len(m'.vaults) = Len(m.vaults) - 1
         /\ m'.vaults = SubSeq(m.vaults, 1, m.deleteIdx)
                            \o SubSeq(m.vaults, m.deleteIdx + 2, Len(m.vaults))
         /\ \/ files' = files
            \/ DOMAIN files' = DOMAIN files \ {SidecarFile(m.vaults[m.deleteIdx + 1].Path)}]_vars

\* the first vault was removed from the list while its sidecar file stayed
C27_Witness ==
    /\ pc = "running"
    /\ m.state = "stateList"
    /\ Len(cfgVaults) > 0
    /\ Len(m.vaults) = Len(cfgVaults) - 1
    /\ cfgVaults[1].Path \notin Paths(m.vaults)
    /\ SidecarFile(cfgVaults[1].Path) \in DOMAIN files
    /\ m.result = NoResult

\* the step taken on enter in the Directory Picker
EnterInPicker == UpdateDirPicker("enter")

\* C28: enter in the browsing Directory Picker resolves it to the
\* highlighted candidate when the index refers to one; otherwise, with an
\* empty input, it sets "Path cannot be empty." and keeps browsing without
\* a result; otherwise it resolves to the expanded input.
C28_PickerConfirm ==
    [][EnterInPicker =>
         LET pm == m.dirPicker
             after == m'.dirPicker
         IN IF pm.selectedIdx >= 0 /\ pm.selectedIdx < Len(pm.filteredDirs)
            THEN /\ after.state = 1
                 /\ after.result = [Path |-> pm.filteredDirs[pm.selectedIdx + 1],
                                    Cancelled |-> FALSE]
            ELSE IF pm.input = EmptyStr
            THEN /\ after.state = 0
                 /\ after.inputError = "Path cannot be empty."
                 /\ after.result = NoPickerResult
                 /\ m'.state = "stateDirPicker"
            ELSE /\ after.state = 1
                 /\ after.result = [Path |-> expandPath(pm.input), Cancelled |-> FALSE]]_vars

\* "~a" was typed and the second candidate confirmed
C28_Witness ==
    /\ m.dirPicker.state = 1
    /\ m.dirPicker.input = <<"~", "a">>
    /\ m.dirPicker.selectedIdx = 1
    /\ m.dirPicker.result = [Path |-> <<"/", "h", "/", "a", "b">>, Cancelled |-> FALSE]

\* the step taken on a cancelling key in the Directory Picker
CancelInPicker == UpdateDirPicker("esc") \/ UpdateDirPicker("q")

\* C29: a cancel resolves the browsing picker with the cancellation set and
\* no path, and a resolved picker is left as it is by every key.
C29_CancelResolvesForGood ==
    /\ [][CancelInPicker =>
            /\ m'.dirPicker.state = 1
            /\ m'.dirPicker.result = [Path |-> EmptyStr, Cancelled |-> TRUE]
            /\ m'.dirPicker.input = m.dirPicker.input
            /\ m'.dirPicker.filteredDirs = m.dirPicker.filteredDirs]_vars
    /\ [](m.dirPicker.state = 1 =>
            \A key \in ControlKeys \cup TypedKeys :
                DirPickerUpdate(m.dirPicker, key) = m.dirPicker)

\* a picker with the typed text "~" was cancelled
C29_Witness ==
    /\ pc = "running"
    /\ m.state = "stateList"
    /\ m.dirPicker.state = 1
    /\ m.dirPicker.result = [Path |-> EmptyStr, Cancelled |-> TRUE]
    /\ m.dirPicker.input = <<"~">>
    /\ Len(m.dirPicker.filteredDirs) = 3

\* C30: the displayed list is the flow's vaults in order followed by the one
\* entry "Create New Vault", and the cursor lies in 0 .. len(vaults), so
\* that enter and D in the vault list index the vaults within range.
C30_ListMatchesVaults ==
    /\ Len(m.items) = Len(m.vaults) + 1
    /\ \A i \in 1..Len(m.vaults) :
         /\ m.items[i] = [name |-> m.vaults[i].Name, path |-> m.vaults[i].Path]
         /\ m.items[i] # CreateItem
    /\ m.items[Len(m.items)] = CreateItem
    /\ m.cursor >= 0
    /\ m.cursor <= Len(m.vaults)

\* the last of three vaults was deleted with the cursor on it: the cursor
\* is on "Create New Vault"
C30_Witness ==
    /\ pc = "running"
    /\ m.state = "stateList"
    /\ Len(callerVaults) = 3
    /\ Len(m.vaults) = 2
    /\ m.deleteIdx = 2
    /\ m.cursor = 2
    /\ m.items[3] = CreateItem

\* the paths listDirs is asked for: directories, absolute and relative,
\* with and without a trailing separator, a file, missing paths, a literal ~
\* and the empty path
ListBases ==
    { Home, <<"/">>, <<"/", "h", "/", "a">>, <<"/", "h", "/", "a", "/">>,
      <<"a">>, Dot, <<"/", "h", "/", "n">>, <<"/", "h", "/", "z">>,
      <<"/", "h", "/", "a", "/", "vault.json">>, <<"~">>, EmptyStr }

\* C31: listDirs(base) of a base that can be read is the sequence of the
\* directories directly inside base, each joined to base, without
\* repetition and in ascending order of the joined path; of a base that
\* cannot be read it is the sequence [base].
C31_ListDirsSortedChildren ==
    pc = "start" =>
        \A base \in ListBases :
            LET r == listDirs(base)
                root == Resolve(base)
                children == { d \in dirs : d # root /\ Dir(d) = root }
            IN IF base # EmptyStr /\ root \in dirs
               THEN /\ Range(r) = { Join(base, Base(d)) : d \in children }
                    /\ Len(r) = Cardinality(children)
                    /\ \A i \in 1..(Len(r) - 1) : StrLess(r[i], r[i + 1])
               ELSE r = <<base>>

\* /h/n was made by "noted vault create": it is listed last in the home
\* directory, and has no subdirectories itself
C31_Witness ==
    /\ pc = "start"
    /\ <<"/", "h", "/", "n">> \in dirs
    /\ listDirs(Home) = << <<"/", "h", "/", "a">>, <<"/", "h", "/", "a", "b">>,
                           <<"/", "h", "/", "b">>, <<"/", "h", "/", "n">> >>
    /\ listDirs(<<"/", "h", "/", "n">>) = << >>
    /\ listDirs(<<"a">>) = << <<"a", "/", "a">> >>

\* the step of the flow writes the sidecar of the confirmed vault, and
\* nothing else
WritesOnlySidecar ==
    /\ EnterInNameEntry
    /\ m.nameInput # EmptyStr
    /\ DOMAIN files' \subseteq DOMAIN files \cup {SidecarFile(m.result.Path)}
    /\ \A f \in DOMAIN files \ {SidecarFile(m.result.Path)} :
         f \in DOMAIN files' /\ files'[f] = files[f]

\* the step of the flow removes the sidecar of the deleted vault, and
\* nothing else
RemovesOnlySidecar ==
    /\ DeleteConfirmed
    /\ DOMAIN files' = DOMAIN files \ {SidecarFile(m.vaults[m.deleteIdx + 1].Path)}
    /\ \A f \in DOMAIN files' : files'[f] = files[f]

C33_FailedFlowLeavesRegistry ==
    /\ [][(pc = "running" /\ pc' = "running") =>
            (cfgVaults' = cfgVaults /\ cfgCurrent' = cfgCurrent)]_vars
    /\ [][(pc = "running" /\ m.state = "stateDone" /\ pc' = "exited"
             /\ (m.result.Cancelled \/ m.result.Err # "nil")) =>
            (cfgVaults' = cfgVaults /\ cfgCurrent' = cfgCurrent)]_vars

\* the first of two or more vaults was deleted and the flow then quit: the
\* caller's slice has changed, the registry has not
C33_Witness ==
    /\ pc = "exited"
    /\ outcome = "error"
    /\ m.result.Cancelled
    /\ Len(cfgVaults) >= 2
    /\ m.vaults = Tail(cfgVaults)
    /\ callerVaults # cfgVaults
    /\ SidecarFile(cfgVaults[1].Path) \notin DOMAIN files

\* C34: a picker that is resolved and not cancelled carries a path that is
\* not empty, and in the name entry the vault's path is not empty.
C34_ResolvedPathNotEmpty ==
    /\ (m.dirPicker.state = 1 /\ ~m.dirPicker.result.Cancelled) =>
           m.dirPicker.result.Path # EmptyStr
    /\ m.state = "stateNameInput" =>
           (m.result.Path # EmptyStr /\ m.result.Path = m.dirPicker.result.Path)

\* enter in the fresh picker was rejected for its empty input, a candidate
\* was confirmed after it
C34_Witness ==
    /\ pc = "running"
    /\ m.state = "stateNameInput"
    /\ m.dirPicker.inputError # ""
    /\ m.dirPicker.input = EmptyStr
    /\ m.dirPicker.state = 1
    /\ m.result.Path = <<"/", "h", "/", "a">>

====
